---- MODULE Spec2Model ----
(***************************************************************************)
(* Patel Chat: the App handlers (src/App.jsx), the ChatArea send exchange  *)
(* (src/components/ChatArea.jsx), the stats/achievements service           *)
(* (statsService.js, carried in src/App.jsx 394-686), the chat logic       *)
(* service, the AI gateway (geminiService.js, carried in                   *)
(* src/components/AchievementNotification.jsx 794-955) and the IndexedDB   *)
(* shim (src/services/indexedDBService.js).                                *)
(*                                                                         *)
(* Every async handler is a task that runs from one await to the next in   *)
(* one step.  A storage request takes effect when it is issued (requests   *)
(* on one object store execute in the order issued) and the task waiting   *)
(* for it is resumed later, in issue order per object store.  A pending    *)
(* AI call settles at any later time.                                      *)
(***************************************************************************)
EXTENDS Integers, Sequences, FiniteSets, TLC

VARIABLES
    now,                 \* Date.now(), in milliseconds
    apiKeyMissing,       \* App state apiKeyMissing (getApiKeyError() # null)
    chatSessions,        \* App state chatSessions
    activeChatSessionId, \* App state activeChatSessionId
    quickPrompts,        \* App state quickPrompts
    isLoading,           \* isLoading of the mounted ChatArea instance
    dbSessions,          \* object store chatSessions: id -> session
    dbPrompts,           \* object store quickPrompts: id -> prompt
    dbStats,             \* object store userStats: "main" -> stats
    sessQ,               \* tasks awaiting a chatSessions store request
    promptQ,             \* tasks awaiting a quickPrompts store request
    statsQ,              \* tasks awaiting a userStats store request
    aiQ,                 \* handleSendMessage calls awaiting sendMessage
    lastSettled,         \* the exchange whose AI call settled last
    lastCheck,           \* the last checkAchievements call: stats given, ids stored then, ids returned
    log,                 \* completed calls: accepted sends, incrementStat amounts
    opsLeft,             \* user events still allowed in this run
    today,               \* calendar day of the wall clock
    appRuns,             \* app starts observed: first day, last day, days in a row
    db,                  \* indexedDBService module variable db
    openReqs,            \* pending indexedDB.open requests
    dbOps,               \* storage operations awaiting initDB
    dbLog,               \* open requests issued, handles used, failures
    args,                \* arguments of the function call under study
    result               \* what that call has produced so far

chatVars == <<now, apiKeyMissing, chatSessions, activeChatSessionId, quickPrompts,
              isLoading, dbSessions, dbPrompts, sessQ, promptQ, aiQ, lastSettled,
              opsLeft>>
statVars == <<dbStats, statsQ, lastCheck, log>>
dayVars  == <<today, appRuns>>
idbVars  == <<db, openReqs, dbOps, dbLog>>
funVars  == <<args, result>>
vars == <<chatVars, statVars, dayVars, idbVars, funVars>>

----------------------------------------------------------------------------
(* Bounds *)
MaxOps    == 2    \* user events per run
MaxAchOps == 1    \* user events per run that starts from stored counters
MaxClock  == 3    \* last millisecond of the run
MaxDays   == 9    \* last calendar day
MaxDbOps  == 3    \* storage operations started in a run

Texts == {"a"}               \* message texts typed by the user (trimmed, non-blank)
Blank == " "                 \* a text whose trim() is empty
Null == "null"

Range(s) == {s[i] : i \in DOMAIN s}
Includes(s, x) == \E i \in DOMAIN s : s[i] = x
IsPrefix(s, t) == Len(s) <= Len(t) /\ \A i \in DOMAIN s : s[i] = t[i]
Put(store, key, val) == [k \in DOMAIN store \cup {key} |-> IF k = key THEN val ELSE store[k]]
Delete(store, key) == [k \in DOMAIN store \ {key} |-> store[k]]

----------------------------------------------------------------------------
(* statsService *)

NewUserStats(day) ==
    [totalMessages |-> 0, totalChats |-> 0, totalQuickPrompts |-> 0,
     achievements |-> <<>>, streakDays |-> 0, lastActiveDate |-> day,
     timeSpentChatting |-> 0]

AchievementRules ==
    << [id |-> "first_message",     stat |-> "totalMessages",     min |-> 1],
       [id |-> "chat_starter",      stat |-> "totalChats",        min |-> 1],
       [id |-> "conversationalist", stat |-> "totalMessages",     min |-> 50],
       [id |-> "chat_master",       stat |-> "totalChats",        min |-> 10],
       [id |-> "prompt_creator",    stat |-> "totalQuickPrompts", min |-> 1],
       [id |-> "efficiency_expert", stat |-> "totalQuickPrompts", min |-> 5],
       [id |-> "marathon_chatter",  stat |-> "totalMessages",     min |-> 200],
       [id |-> "week_warrior",      stat |-> "streakDays",        min |-> 7],
       [id |-> "power_user",        stat |-> "timeSpentChatting", min |-> 60],
       [id |-> "explorer",          stat |-> "totalChats",        min |-> 25] >>

ConditionLax(rule, s) == s[rule.stat] > rule.min
Condition(rule, s) == s[rule.stat] >= rule.min

\* getUsageInsights: the object the handlers hand to checkAchievements
\* (the day averages, which no rule reads, are left out)
UsageInsights(stats) ==
    [totalMessages |-> stats.totalMessages, totalChats |-> stats.totalChats,
     totalQuickPrompts |-> stats.totalQuickPrompts, streakDays |-> stats.streakDays,
     timeSpentChatting |-> stats.timeSpentChatting,
     achievementsEarned |-> Len(stats.achievements), totalAchievements |-> 10]

\* stats.achievements || []
CurrentAchievements(s) == IF "achievements" \in DOMAIN s THEN s.achievements ELSE <<>>

RECURSIVE CheckLoop(_, _, _, _)
CheckLoop(i, s, cur, new) ==
    IF i > Len(AchievementRules) THEN [currentAchievements |-> cur, newAchievements |-> new]
    ELSE LET a == AchievementRules[i] IN
         IF ~Includes(cur, a.id) /\ Condition(a, s)
         THEN CheckLoop(i + 1, s, Append(cur, a.id), Append(new, a.id))
         ELSE CheckLoop(i + 1, s, cur, new)

\* checkAchievements, up to its call of updateUserStats
CheckAchievements(s) == CheckLoop(1, s, CurrentAchievements(s), <<>>)

GetUserStats == dbStats["main"]

\* { ...currentStats, ...updates }
Merge(currentStats, updates) ==
    [k \in DOMAIN currentStats \cup DOMAIN updates |->
        IF k \in DOMAIN updates THEN updates[k] ELSE currentStats[k]]

----------------------------------------------------------------------------
(* chatLogicService, geminiService *)

WelcomeMessage == [sender |-> "bot", text |-> "welcome", isError |-> FALSE]

CreateNewChatSession(timestamp) ==
    [id |-> ToString(timestamp), messages |-> <<WelcomeMessage>>]

RECURSIVE SanitizeHistory(_)
SanitizeHistory(history) ==
    IF history # <<>> /\ history[1].sender # "user"
    THEN SanitizeHistory(Tail(history))
    ELSE history

\* sendMessage with an available client: rejects when the sanitized history is
\* empty, otherwise settles as the endpoint does
SendMessageRejects(history, endpointOk) ==
    SanitizeHistory(history) = <<>> \/ ~endpointOk

\* findIndex that reports the first position for any session it finds
FindIndexFirst(sessions, id) ==
    IF \E i \in DOMAIN sessions : sessions[i].id = id THEN 1 ELSE 0

\* calculateNextStateAfterDeletion; findIndex is 0-based in the code, 1-based
\* here, 0 standing for "not found"
FindIndex(sessions, id) ==
    IF \E i \in DOMAIN sessions : sessions[i].id = id
    THEN CHOOSE i \in DOMAIN sessions :
             sessions[i].id = id /\ \A j \in 1..(i - 1) : sessions[j].id # id
    ELSE 0

\* calculateNextStateAfterDeletion without the activeStillExists safeguard
CalculateNextStateUnguarded(currentSessions, sessionIdToDelete, currentActiveSessionId) ==
    LET originalIndexToDelete == FindIndex(currentSessions, sessionIdToDelete)
        updatedSessions == SelectSeq(currentSessions, LAMBDA s : s.id # sessionIdToDelete)
        newActiveSessionId ==
            IF currentActiveSessionId = sessionIdToDelete
            THEN IF updatedSessions = <<>> THEN Null
                 ELSE IF originalIndexToDelete >= 1
                      THEN IF originalIndexToDelete <= Len(updatedSessions)
                           THEN updatedSessions[originalIndexToDelete].id
                           ELSE updatedSessions[Len(updatedSessions)].id
                      ELSE updatedSessions[1].id
            ELSE IF updatedSessions = <<>> THEN Null
                 ELSE IF currentActiveSessionId = Null THEN updatedSessions[1].id
                 ELSE currentActiveSessionId
    IN [updatedSessions |-> updatedSessions, newActiveSessionId |-> newActiveSessionId]

CalculateNextStateAfterDeletion(currentSessions, sessionIdToDelete, currentActiveSessionId) ==
    LET originalIndexToDelete == FindIndex(currentSessions, sessionIdToDelete)
        updatedSessions == SelectSeq(currentSessions, LAMBDA s : s.id # sessionIdToDelete)
        newActiveSessionId ==
            IF currentActiveSessionId = sessionIdToDelete
            THEN IF updatedSessions = <<>> THEN Null
                 ELSE IF originalIndexToDelete >= 1
                      THEN IF originalIndexToDelete <= Len(updatedSessions)
                           THEN updatedSessions[originalIndexToDelete].id
                           ELSE updatedSessions[Len(updatedSessions)].id
                      ELSE updatedSessions[1].id
            ELSE IF updatedSessions = <<>> THEN Null
                 ELSE IF currentActiveSessionId = Null THEN updatedSessions[1].id
                 ELSE IF ~\E i \in DOMAIN updatedSessions :
                              updatedSessions[i].id = currentActiveSessionId
                      THEN updatedSessions[1].id
                      ELSE currentActiveSessionId
    IN [updatedSessions |-> updatedSessions, newActiveSessionId |-> newActiveSessionId]

----------------------------------------------------------------------------
(* ChatArea.handleSendMessage: the sessions it builds *)

UserMessage(text) == [sender |-> "user", text |-> text, isError |-> FALSE]
AiMessage       == [sender |-> "ai", text |-> "response", isError |-> FALSE]
ErrorMessage    == [sender |-> "ai", text |-> "Sorry, I encountered an error", isError |-> TRUE]

UpdatedSession(activeChatSession, text) ==
    [activeChatSession EXCEPT !.messages = Append(@, UserMessage(text))]

FinalSession(updatedSession) ==
    [updatedSession EXCEPT !.messages = Append(@, AiMessage)]

ErrorSessionUnflagged(updatedSession) ==
    [updatedSession EXCEPT !.messages = Append(@, AiMessage)]
ErrorSession(updatedSession) ==
    [updatedSession EXCEPT !.messages = Append(@, ErrorMessage)]

\* const activeChat = chatSessions.find(s => s.id === activeChatSessionId) || null
HasActiveChat == \E i \in DOMAIN chatSessions : chatSessions[i].id = activeChatSessionId
ActiveChat == chatSessions[FindIndex(chatSessions, activeChatSessionId)]

\* setActiveChatSessionId: <ChatArea key={activeChatSessionId}> is re-mounted,
\* with isLoading = false, when the key changes; sends of the old instance go on
SetActive(id, q) ==
    /\ activeChatSessionId' = id
    /\ isLoading' = IF id = activeChatSessionId THEN isLoading ELSE FALSE
    /\ aiQ' = IF id = activeChatSessionId THEN q
              ELSE [i \in DOMAIN q |-> [q[i] EXCEPT !.mounted = FALSE]]

\* the first step of incrementStat(stat): getUserStats is requested
IncrementStatCall(stat, amount) ==
    [pc |-> "inc_get", stat |-> stat, amount |-> amount, currentStats |-> GetUserStats]

----------------------------------------------------------------------------
(* Initial state: a first run, after initializeApp has created the initial  *)
(* session (if the key is set) and the user stats.                          *)

InitChatWith(ops) ==
    /\ now = 2
    /\ apiKeyMissing \in BOOLEAN
    /\ chatSessions = IF apiKeyMissing THEN <<>> ELSE <<CreateNewChatSession(1)>>
    /\ activeChatSessionId = IF apiKeyMissing THEN Null ELSE ToString(1)
    /\ quickPrompts = <<>>
    /\ isLoading = FALSE
    /\ dbSessions = IF apiKeyMissing THEN <<>>
                    ELSE Put(<<>>, ToString(1), CreateNewChatSession(1))
    /\ dbPrompts = <<>>
    /\ sessQ = <<>>
    /\ promptQ = <<>>
    /\ aiQ = <<>>
    /\ lastSettled = <<>>
    /\ opsLeft = ops

InitChat == InitChatWith(MaxOps)

InitStats ==
    /\ dbStats = Put(<<>>, "main", NewUserStats(1))
    /\ statsQ = <<>>
    /\ lastCheck = [given |-> UsageInsights(NewUserStats(1)), stored |-> <<>>, new |-> <<>>]
    /\ log = [sends |-> 0, totalMessages |-> 0, totalChats |-> 0, totalQuickPrompts |-> 0,
             refused |-> 0, deleted |-> {}, caught |-> 0]

InitDays == today = 1 /\ appRuns = <<>>

\* no function call is under study
InitFun == args = <<>> /\ result = <<>>

\* initializeApp has awaited initDB: the database is open
InitIdb ==
    /\ db = "db1"
    /\ openReqs = {}
    /\ dbOps = <<>>
    /\ dbLog = [opens |-> 1, started |-> 1, used |-> {"db1"}, failed |-> FALSE]

Init == InitChat /\ InitStats /\ InitDays /\ InitIdb /\ InitFun

----------------------------------------------------------------------------
(* User events of the App and of the mounted ChatArea *)

Spend == opsLeft > 0 /\ opsLeft' = opsLeft - 1

\* Date.now() returns t: the clock never goes back, and two reads may fall in
\* the same millisecond
DateNow(t) == t \in now..MaxClock /\ now' = t

\* handleCreateNewChat, up to `await saveChatSession(newSession)`
HandleCreateNewChat(timestamp) ==
    /\ Spend
    /\ IF apiKeyMissing
       THEN timestamp = now /\ UNCHANGED <<now, dbSessions, sessQ>>
       ELSE LET newSession == CreateNewChatSession(timestamp) IN
            /\ DateNow(timestamp)
            /\ dbSessions' = Put(dbSessions, newSession.id, newSession)
            /\ sessQ' = Append(sessQ, [op |-> "create", session |-> newSession])
    /\ UNCHANGED <<apiKeyMissing, chatSessions, activeChatSessionId, quickPrompts,
                   isLoading, dbPrompts, promptQ, aiQ, lastSettled,
                   statVars, dayVars, idbVars, funVars>>

\* handleSelectChat, for a session listed in the sidebar
HandleSelectChat(sessionId) ==
    /\ Spend
    /\ \E i \in DOMAIN chatSessions : chatSessions[i].id = sessionId
    /\ SetActive(sessionId, aiQ)
    /\ UNCHANGED <<now, apiKeyMissing, chatSessions, quickPrompts, dbSessions, dbPrompts,
                   sessQ, promptQ, lastSettled, statVars, dayVars, idbVars, funVars>>

\* handleDeleteChat, up to `await deleteChatSession(sessionIdToDelete)`; the
\* sessions and the active id are those of the render the handler closes over
HandleDeleteChat(sessionIdToDelete) ==
    /\ Spend
    /\ \E i \in DOMAIN chatSessions : chatSessions[i].id = sessionIdToDelete
    /\ LET next == CalculateNextStateAfterDeletion(chatSessions, sessionIdToDelete,
                                                   activeChatSessionId) IN
       /\ dbSessions' = Delete(dbSessions, sessionIdToDelete)
       /\ sessQ' = Append(sessQ, [op |-> "delete",
                                  sessionIdToDelete |-> sessionIdToDelete,
                                  updatedSessions |-> next.updatedSessions,
                                  newActiveSessionId |-> next.newActiveSessionId])
    /\ UNCHANGED <<now, apiKeyMissing, chatSessions, activeChatSessionId, quickPrompts,
                   isLoading, dbPrompts, promptQ, aiQ, lastSettled,
                   statVars, dayVars, idbVars, funVars>>

\* handleUpdateChatSession, up to `await saveChatSession(updatedSession)`
UpdateChatSessionCall(updatedSession) ==
    /\ dbSessions' = Put(dbSessions, updatedSession.id, updatedSession)
    /\ sessQ' = Append(sessQ, [op |-> "update", session |-> updatedSession])

\* handleSendMessage whose guard does not test isLoading
HandleSendMessageWhileLoading(messageText) ==
    /\ Spend
    /\ IF messageText = Blank \/ apiKeyMissing \/ ~HasActiveChat
       THEN /\ log' = [log EXCEPT !.refused = @ + 1]
            /\ UNCHANGED <<dbSessions, sessQ, isLoading, aiQ>>
       ELSE LET activeChatSession == ActiveChat
                updatedSession == UpdatedSession(activeChatSession, messageText) IN
            /\ UpdateChatSessionCall(updatedSession)
            /\ isLoading' = TRUE
            /\ aiQ' = Append(aiQ, [updatedSession |-> updatedSession,
                                   history |-> activeChatSession.messages,
                                   mounted |-> TRUE])
            /\ log' = [log EXCEPT !.sends = @ + 1]
    /\ UNCHANGED <<now, apiKeyMissing, chatSessions, activeChatSessionId, quickPrompts,
                   dbPrompts, promptQ, lastSettled, dbStats, statsQ, lastCheck,
                   dayVars, idbVars, funVars>>

\* handleSendMessage, up to `await sendMessage(...)`
HandleSendMessage(messageText) ==
    /\ Spend
    /\ IF messageText = Blank \/ isLoading \/ apiKeyMissing \/ ~HasActiveChat
       THEN /\ log' = [log EXCEPT !.refused = @ + 1]
            /\ UNCHANGED <<dbSessions, sessQ, isLoading, aiQ>>
       ELSE LET activeChatSession == ActiveChat
                updatedSession == UpdatedSession(activeChatSession, messageText) IN
            /\ UpdateChatSessionCall(updatedSession)
            /\ isLoading' = TRUE
            /\ aiQ' = Append(aiQ, [updatedSession |-> updatedSession,
                                   history |-> activeChatSession.messages,
                                   mounted |-> TRUE])
            /\ log' = [log EXCEPT !.sends = @ + 1]
    /\ UNCHANGED <<now, apiKeyMissing, chatSessions, activeChatSessionId, quickPrompts,
                   dbPrompts, promptQ, lastSettled, dbStats, statsQ, lastCheck,
                   dayVars, idbVars, funVars>>

\* handleSendMessage, from the settling of sendMessage to its end: the try
\* branch when sendMessage resolved, the catch branch when it rejected
AiSettles(i, endpointOk) ==
    /\ i \in DOMAIN aiQ
    /\ LET t == aiQ[i]
           rejected == SendMessageRejects(t.history, endpointOk)
           session == IF rejected THEN ErrorSession(t.updatedSession)
                      ELSE FinalSession(t.updatedSession) IN
       /\ UpdateChatSessionCall(session)
       /\ isLoading' = IF t.mounted THEN FALSE ELSE isLoading
       /\ aiQ' = SubSeq(aiQ, 1, i - 1) \o SubSeq(aiQ, i + 1, Len(aiQ))
       /\ lastSettled' = << [endpointOk |-> endpointOk, rejected |-> rejected,
                             history |-> t.history, passed |-> session,
                             propagated |-> FALSE] >>
    /\ UNCHANGED <<now, apiKeyMissing, chatSessions, activeChatSessionId, quickPrompts,
                   dbPrompts, promptQ, opsLeft, statVars, dayVars, idbVars, funVars>>

----------------------------------------------------------------------------
(* Handlers resumed by the chatSessions store *)

\* handleCreateNewChat, from the resolved save to `await incrementStat('totalChats')`
CreateSaved ==
    /\ sessQ # <<>> /\ Head(sessQ).op = "create"
    /\ LET newSession == Head(sessQ).session IN
       /\ chatSessions' = <<newSession>> \o chatSessions
       /\ SetActive(newSession.id, aiQ)
    /\ sessQ' = Tail(sessQ)
    /\ statsQ' = Append(statsQ, IncrementStatCall("totalChats", 1))
    /\ UNCHANGED <<now, apiKeyMissing, quickPrompts, dbSessions, dbPrompts, promptQ,
                   lastSettled, opsLeft, dbStats, lastCheck, log, dayVars, idbVars, funVars>>

\* handleUpdateChatSession, from the resolved save to `await incrementStat('totalMessages')`
UpdateSaved ==
    /\ sessQ # <<>> /\ Head(sessQ).op = "update"
    /\ LET updatedSession == Head(sessQ).session
           userMessages == SelectSeq(updatedSession.messages, LAMBDA m : m.sender = "user") IN
       /\ chatSessions' = [i \in DOMAIN chatSessions |->
                              IF chatSessions[i].id = updatedSession.id
                              THEN updatedSession ELSE chatSessions[i]]
       /\ statsQ' = IF Len(userMessages) > 0
                    THEN Append(statsQ, IncrementStatCall("totalMessages", 1))
                    ELSE statsQ
    /\ sessQ' = Tail(sessQ)
    /\ UNCHANGED <<now, apiKeyMissing, activeChatSessionId, quickPrompts, isLoading,
                   dbSessions, dbPrompts, promptQ, aiQ, lastSettled, opsLeft,
                   dbStats, lastCheck, log, dayVars, idbVars, funVars>>

\* handleDeleteChat resumed, without setActiveChatSessionId(newActiveSessionId)
DeleteDoneKeepsActive ==
    /\ sessQ # <<>> /\ Head(sessQ).op = "delete"
    /\ chatSessions' = Head(sessQ).updatedSessions
    /\ sessQ' = Tail(sessQ)
    /\ log' = [log EXCEPT !.deleted = @ \cup {Head(sessQ).sessionIdToDelete}]
    /\ UNCHANGED <<now, apiKeyMissing, activeChatSessionId, quickPrompts, isLoading,
                   dbSessions, dbPrompts, promptQ, aiQ, lastSettled, opsLeft,
                   dbStats, statsQ, lastCheck, dayVars, idbVars, funVars>>

\* handleDeleteChat, from the resolved delete to its end
DeleteDone ==
    /\ sessQ # <<>> /\ Head(sessQ).op = "delete"
    /\ chatSessions' = Head(sessQ).updatedSessions
    /\ SetActive(Head(sessQ).newActiveSessionId, aiQ)
    /\ sessQ' = Tail(sessQ)
    /\ log' = [log EXCEPT !.deleted = @ \cup {Head(sessQ).sessionIdToDelete}]
    /\ UNCHANGED <<now, apiKeyMissing, quickPrompts, dbSessions, dbPrompts, promptQ,
                   lastSettled, opsLeft, dbStats, statsQ, lastCheck,
                   dayVars, idbVars, funVars>>

----------------------------------------------------------------------------
(* Quick prompts *)

\* Sidebar.handleSavePrompt and handleSaveQuickPrompt, up to `await saveQuickPrompt(prompt)`:
\* a new prompt gets the id prompt-<now>, an edited one keeps its id
HandleSaveQuickPrompt(editing, text, timestamp) ==
    /\ Spend
    /\ editing = 0 \/ editing \in DOMAIN quickPrompts
    /\ DateNow(timestamp)
    /\ LET prompt == [id |-> IF editing = 0 THEN "prompt-" \o ToString(timestamp)
                             ELSE quickPrompts[editing].id,
                      text |-> text] IN
       /\ dbPrompts' = Put(dbPrompts, prompt.id, prompt)
       /\ promptQ' = Append(promptQ, [op |-> "save", prompt |-> prompt,
                                      editing |-> editing # 0])
    /\ UNCHANGED <<apiKeyMissing, chatSessions, activeChatSessionId, quickPrompts,
                   isLoading, dbSessions, sessQ, aiQ, lastSettled,
                   statVars, dayVars, idbVars, funVars>>

\* handleSaveQuickPrompt, from the resolved save to `await incrementStat('totalQuickPrompts')`
PromptSaved ==
    /\ promptQ # <<>> /\ Head(promptQ).op = "save"
    /\ LET prompt == Head(promptQ).prompt IN
       quickPrompts' = <<prompt>> \o SelectSeq(quickPrompts, LAMBDA q : q.id # prompt.id)
    /\ promptQ' = Tail(promptQ)
    /\ statsQ' = Append(statsQ, IncrementStatCall("totalQuickPrompts", 1))
    /\ UNCHANGED <<now, apiKeyMissing, chatSessions, activeChatSessionId, isLoading,
                   dbSessions, dbPrompts, sessQ, aiQ, lastSettled, opsLeft,
                   dbStats, lastCheck, log, dayVars, idbVars, funVars>>

\* handleDeleteQuickPrompt, up to `await deleteQuickPrompt(promptId)`
HandleDeleteQuickPrompt(i) ==
    /\ Spend
    /\ i \in DOMAIN quickPrompts
    /\ dbPrompts' = Delete(dbPrompts, quickPrompts[i].id)
    /\ promptQ' = Append(promptQ, [op |-> "delete", promptId |-> quickPrompts[i].id])
    /\ UNCHANGED <<now, apiKeyMissing, chatSessions, activeChatSessionId, quickPrompts,
                   isLoading, dbSessions, sessQ, aiQ, lastSettled,
                   statVars, dayVars, idbVars, funVars>>

\* handleDeleteQuickPrompt, from the resolved delete to its end
PromptDeleted ==
    /\ promptQ # <<>> /\ Head(promptQ).op = "delete"
    /\ quickPrompts' = SelectSeq(quickPrompts, LAMBDA q : q.id # Head(promptQ).promptId)
    /\ promptQ' = Tail(promptQ)
    /\ UNCHANGED <<now, apiKeyMissing, chatSessions, activeChatSessionId, isLoading,
                   dbSessions, dbPrompts, sessQ, aiQ, lastSettled, opsLeft,
                   statVars, dayVars, idbVars, funVars>>

----------------------------------------------------------------------------
(* statsService calls resumed by the userStats store.  Every handler runs    *)
(* incrementStat, getUsageInsights, checkAchievements in this order.         *)

\* incrementStat, from the resolved getUserStats to `await saveUserStats(currentStats)`
IncrementStatRead ==
    /\ statsQ # <<>> /\ Head(statsQ).pc = "inc_get"
    /\ LET t == Head(statsQ)
           currentStats == [t.currentStats EXCEPT ![t.stat] = @ + t.amount] IN
       /\ dbStats' = Put(dbStats, "main", currentStats)
       /\ statsQ' = Append(Tail(statsQ),
                           [pc |-> "inc_put", stat |-> t.stat, amount |-> t.amount])
    /\ UNCHANGED <<chatVars, lastCheck, log, dayVars, idbVars, funVars>>

\* incrementStat returns; getUsageInsights, up to `await getUserStats()`
IncrementStatSaved ==
    /\ statsQ # <<>> /\ Head(statsQ).pc = "inc_put"
    /\ log' = [log EXCEPT ![Head(statsQ).stat] = @ + Head(statsQ).amount]
    /\ statsQ' = Append(Tail(statsQ), [pc |-> "ins_get", stats |-> GetUserStats])
    /\ UNCHANGED <<chatVars, dbStats, lastCheck, dayVars, idbVars, funVars>>

\* getUsageInsights returns; checkAchievements(stats), up to the
\* `await getUserStats()` of updateUserStats, or to its end when nothing is new
CheckAchievementsCall ==
    /\ statsQ # <<>> /\ Head(statsQ).pc = "ins_get"
    /\ LET stats == UsageInsights(Head(statsQ).stats)
           r == CheckAchievements(stats) IN
       /\ lastCheck' = [given |-> stats, stored |-> GetUserStats.achievements,
                        new |-> r.newAchievements]
       /\ statsQ' = IF Len(r.newAchievements) > 0
                    THEN Append(Tail(statsQ),
                                [pc |-> "upd_get", given |-> stats,
                                 updates |-> [achievements |-> r.currentAchievements],
                                 currentStats |-> GetUserStats])
                    ELSE Tail(statsQ)
    /\ UNCHANGED <<chatVars, dbStats, log, dayVars, idbVars, funVars>>

\* updateUserStats, from the resolved getUserStats to `await saveUserStats(updatedStats)`;
\* what follows the save (the return of checkAchievements and the toast) reads
\* and changes nothing modelled here, so the call ends with this step
UpdateUserStatsRead ==
    /\ statsQ # <<>> /\ Head(statsQ).pc = "upd_get"
    /\ dbStats' = Put(dbStats, "main", Merge(Head(statsQ).currentStats, Head(statsQ).updates))
    /\ statsQ' = Tail(statsQ)
    /\ UNCHANGED <<chatVars, lastCheck, log, dayVars, idbVars, funVars>>

----------------------------------------------------------------------------
Next ==
    \/ \E t \in 1..MaxClock : HandleCreateNewChat(t)
    \/ \E t \in 1..MaxClock : HandleSelectChat(ToString(t))
    \/ \E t \in 1..MaxClock : HandleDeleteChat(ToString(t))
    \/ \E text \in Texts \cup {Blank} : HandleSendMessage(text)
    \/ \E i \in 1..MaxOps, endpointOk \in BOOLEAN : AiSettles(i, endpointOk)
    \/ CreateSaved
    \/ UpdateSaved
    \/ DeleteDone
    \/ \E editing \in 0..MaxOps, text \in Texts, t \in 1..MaxClock :
          HandleSaveQuickPrompt(editing, text, t)
    \/ PromptSaved
    \/ \E i \in 1..MaxOps : HandleDeleteQuickPrompt(i)
    \/ PromptDeleted
    \/ IncrementStatRead
    \/ IncrementStatSaved
    \/ CheckAchievementsCall
    \/ UpdateUserStatsRead

Spec == Init /\ [][Next]_vars

Quiescent == sessQ = <<>> /\ promptQ = <<>> /\ statsQ = <<>> /\ aiQ = <<>>

----------------------------------------------------------------------------
(* Claims checked under Spec *)

\* C1: every session value saved through handleUpdateChatSession has a message
\* list that extends, as a prefix, the message list last saved for that session.
C1_SavedMessagesExtend ==
    [][\A id \in DOMAIN dbSessions \cap DOMAIN dbSessions' :
          IsPrefix(dbSessions[id].messages, dbSessions'[id].messages)]_vars

\* C2: when the endpoint answers successfully, the exchange ends with the user's
\* message followed by exactly one assistant message without error flag.
C2_SuccessfulExchange ==
    \A k \in DOMAIN lastSettled :
        LET x == lastSettled[k]
            m == x.passed.messages
            n == Len(x.history) IN
        x.endpointOk =>
            /\ Len(m) = n + 2
            /\ SubSeq(m, 1, n) = x.history
            /\ m[n + 1].sender = "user"
            /\ m[n + 2].sender = "ai" /\ ~m[n + 2].isError

\* C3: when sendMessage rejects, the session passed to handleUpdateChatSession
\* is the earlier messages, the user's message and exactly one message with
\* isError = true after it; the failure does not leave handleSendMessage.
C3_FailedCallKeepsUserMessage ==
    \A k \in DOMAIN lastSettled :
        LET x == lastSettled[k]
            m == x.passed.messages
            n == Len(x.history) IN
        x.rejected =>
            /\ Len(m) = n + 2
            /\ SubSeq(m, 1, n) = x.history
            /\ m[n + 1].sender = "user" /\ m[n + 1].text \in Texts /\ ~m[n + 1].isError
            /\ m[n + 2].isError
            /\ \A i \in 1..(n + 1) : m[i].sender = "user" => ~m[i].isError
            /\ ~x.propagated

\* C3 witness: an AI call failed at the endpoint after an earlier exchange of the
\* same session, and its error session was passed on.
C3_Witness ==
    \E k \in DOMAIN lastSettled :
        /\ lastSettled[k].rejected /\ ~lastSettled[k].endpointOk
        /\ Len(lastSettled[k].history) >= 3
        /\ lastSettled[k].passed.messages[Len(lastSettled[k].history) + 2].isError

\* C4: once every call has completed, each stored counter has grown by the sum
\* of the amounts of the completed incrementStat calls (the counters start at 0).
C4_NoLostStatsUpdate ==
    Quiescent =>
        \A stat \in {"totalMessages", "totalChats", "totalQuickPrompts"} :
            GetUserStats[stat] = log[stat]

\* C5: checkAchievements never returns an achievement whose id is already in
\* the stored achievements list.
C5_ReportedAtMostOnce ==
    \A i \in DOMAIN lastCheck.new : ~Includes(lastCheck.stored, lastCheck.new[i])

\* C7: every accepted handleSendMessage exchange increases the stored
\* totalMessages by exactly 1.
C7_OneMessagePerExchange ==
    Quiescent => GetUserStats.totalMessages = log.sends

\* C9: any two sessions created by createNewChatSession have different ids.
C9_UniqueSessionIds ==
    \A i, j \in DOMAIN chatSessions :
        i # j => chatSessions[i].id # chatSessions[j].id

----------------------------------------------------------------------------
(* The achievement rules at their thresholds: a run that starts from the    *)
(* counters an earlier run has stored, just below the thresholds.  The      *)
(* stored list holds what the last check of the earlier run stored, before  *)
(* the streak and the chatting time reached their stored values.            *)

StoredStats(tm, tc, tq, sd, ts) ==
    LET counted == [NewUserStats(1) EXCEPT !.totalMessages = tm, !.totalChats = tc,
                                           !.totalQuickPrompts = tq] IN
    [counted EXCEPT !.streakDays = sd, !.timeSpentChatting = ts,
                    !.achievements =
                        CheckAchievements(UsageInsights(counted)).currentAchievements]

InitAch ==
    /\ InitChatWith(MaxAchOps) /\ InitDays /\ InitIdb /\ InitFun
    /\ \E tm \in {0, 49, 199}, tc \in {0, 9, 24}, tq \in {0, 4}, sd \in {0, 7}, ts \in {0, 60} :
          /\ dbStats = Put(<<>>, "main", StoredStats(tm, tc, tq, sd, ts))
          /\ lastCheck = [given |-> UsageInsights(StoredStats(tm, tc, tq, 0, 0)),
                          stored |-> StoredStats(tm, tc, tq, sd, ts).achievements,
                          new |-> <<>>]
    /\ statsQ = <<>>
    /\ log = [sends |-> 0, totalMessages |-> 0, totalChats |-> 0, totalQuickPrompts |-> 0,
             refused |-> 0, deleted |-> {}, caught |-> 0]

\* the handlers that call checkAchievements
NextAch ==
    \/ \E t \in 1..MaxClock : HandleCreateNewChat(t)
    \/ \E text \in Texts \cup {Blank} : HandleSendMessage(text)
    \/ \E i \in 1..MaxOps, endpointOk \in BOOLEAN : AiSettles(i, endpointOk)
    \/ CreateSaved
    \/ UpdateSaved
    \/ \E editing \in 0..MaxOps, text \in Texts, t \in 1..MaxClock :
          HandleSaveQuickPrompt(editing, text, t)
    \/ PromptSaved
    \/ IncrementStatRead
    \/ IncrementStatSaved
    \/ CheckAchievementsCall
    \/ UpdateUserStatsRead

SpecAch == InitAch /\ [][NextAch]_vars

\* the thresholds as the claim states them
MetByClaim(id, s) ==
    CASE id = "first_message"     -> s.totalMessages >= 1
      [] id = "conversationalist" -> s.totalMessages >= 50
      [] id = "marathon_chatter"  -> s.totalMessages >= 200
      [] id = "chat_starter"      -> s.totalChats >= 1
      [] id = "chat_master"       -> s.totalChats >= 10
      [] id = "explorer"          -> s.totalChats >= 25
      [] id = "prompt_creator"    -> s.totalQuickPrompts >= 1
      [] id = "efficiency_expert" -> s.totalQuickPrompts >= 5
      [] id = "week_warrior"      -> s.streakDays >= 7
      [] id = "power_user"        -> s.timeSpentChatting >= 60

AchievementIds ==
    {"first_message", "conversationalist", "marathon_chatter", "chat_starter",
     "chat_master", "explorer", "prompt_creator", "efficiency_expert",
     "week_warrior", "power_user"}

\* C6: the ids a checkAchievements call adds to the stored list are exactly the
\* ids whose threshold is met by the stats given to the call and that are not
\* stored yet; a call that stores nothing had no such id.
C6_AddedExactlyWhenMet ==
    [][(/\ statsQ # <<>>
        /\ Head(statsQ).pc \in {"ins_get", "upd_get"}
        /\ statsQ' = Tail(statsQ))
       => LET t == Head(statsQ)
              given == IF t.pc = "ins_get" THEN UsageInsights(t.stats) ELSE t.given
              before == Range(dbStats["main"].achievements)
              after == Range(dbStats'["main"].achievements) IN
          after \ before = {id \in AchievementIds : MetByClaim(id, given) /\ id \notin before}
      ]_vars

\* C6 witness: the 50th message has been counted and the check that was given
\* totalMessages = 50 has added conversationalist, which was not stored before.
C6_Witness ==
    /\ lastCheck.given.totalMessages = 50
    /\ Includes(lastCheck.new, "conversationalist")
    /\ ~Includes(lastCheck.stored, "conversationalist")
    /\ Includes(GetUserStats.achievements, "conversationalist")

----------------------------------------------------------------------------
(* App starts over the calendar days: initializeApp on a page load.  Nothing *)
(* else runs while it does, so it is one step.                               *)

\* updateStreakDays, with lastActiveDate and Date.now() as calendar days
UpdateStreakDays(stats, day) ==
    IF stats.lastActiveDate = day THEN stats
    ELSE IF stats.lastActiveDate = day - 1
         THEN Merge(stats, [streakDays |-> stats.streakDays + 1, lastActiveDate |-> day])
         ELSE Merge(stats, [streakDays |-> 1, lastActiveDate |-> day])

\* initializeUserStats
InitializeUserStats(store, day) ==
    IF "main" \in DOMAIN store THEN store["main"] ELSE NewUserStats(day)

\* getChatSessions: the stored sessions in key order
StoredSessions ==
    LET keys == SelectSeq([t \in 1..MaxClock |-> ToString(t)],
                          LAMBDA k : k \in DOMAIN dbSessions) IN
    [i \in DOMAIN keys |-> dbSessions[keys[i]]]

\* before the first page load: empty stores
InitBlank ==
    /\ now = 1
    /\ apiKeyMissing \in BOOLEAN
    /\ chatSessions = <<>>
    /\ activeChatSessionId = Null
    /\ quickPrompts = <<>>
    /\ isLoading = FALSE
    /\ dbSessions = <<>>
    /\ dbPrompts = <<>>
    /\ dbStats = <<>>
    /\ sessQ = <<>> /\ promptQ = <<>> /\ statsQ = <<>> /\ aiQ = <<>>
    /\ lastSettled = <<>>
    /\ lastCheck = [given |-> UsageInsights(NewUserStats(1)), stored |-> <<>>, new |-> <<>>]
    /\ log = [sends |-> 0, totalMessages |-> 0, totalChats |-> 0, totalQuickPrompts |-> 0,
             refused |-> 0, deleted |-> {}, caught |-> 0]
    /\ opsLeft = 0

InitStreak == InitBlank /\ InitDays /\ InitIdb /\ InitFun

\* initializeApp
InitializeApp ==
    /\ LET sessions == StoredSessions
           newSession == CreateNewChatSession(now) IN
       IF Len(sessions) > 0
       THEN /\ chatSessions' = sessions
            /\ activeChatSessionId' = sessions[1].id
            /\ UNCHANGED dbSessions
       ELSE IF ~apiKeyMissing
            THEN /\ dbSessions' = Put(dbSessions, newSession.id, newSession)
                 /\ chatSessions' = <<newSession>>
                 /\ activeChatSessionId' = newSession.id
            ELSE /\ chatSessions' = sessions
                 /\ UNCHANGED <<dbSessions, activeChatSessionId>>
    /\ dbStats' = Put(dbStats, "main",
                      UpdateStreakDays(InitializeUserStats(dbStats, today), today))
    /\ appRuns' = IF appRuns = <<>>
                  THEN << [first |-> today, last |-> today, unbroken |-> TRUE] >>
                  ELSE << [first |-> appRuns[1].first, last |-> today,
                           unbroken |-> appRuns[1].unbroken
                                        /\ today <= appRuns[1].last + 1] >>
    /\ UNCHANGED <<now, apiKeyMissing, quickPrompts, isLoading, dbPrompts, sessQ,
                   promptQ, statsQ, aiQ, lastSettled, lastCheck, log, opsLeft,
                   today, idbVars, funVars>>

\* midnight
NextDay ==
    /\ today < MaxDays
    /\ today' = today + 1
    /\ UNCHANGED <<chatVars, statVars, appRuns, idbVars, funVars>>

NextStreak == InitializeApp \/ NextDay

SpecStreak == InitStreak /\ [][NextStreak]_vars

\* C10: after the app has been started on n consecutive calendar days beginning
\* with the day of first use, the stored streakDays equals n.
C10_StreakCountsDays ==
    \A k \in DOMAIN appRuns :
        appRuns[k].unbroken =>
            GetUserStats.streakDays = appRuns[k].last - appRuns[k].first + 1

----------------------------------------------------------------------------
(* indexedDBService: initDB and the storage operations that await it *)

StorageOps == {"getAllFromStore", "putInStore", "deleteFromStore", "getFromStore"}

InitDB ==
    /\ InitBlank /\ InitDays /\ InitFun
    /\ db = Null
    /\ openReqs = {}
    /\ dbOps = <<>>
    /\ dbLog = [opens |-> 0, started |-> 0, used |-> {}, failed |-> FALSE]

\* a storage operation up to `await initDB()`: with db set the promise is
\* resolved and the operation goes on to db.transaction; otherwise initDB
\* issues indexedDB.open and the operation waits for that request
StorageCall(op) ==
    /\ dbLog.started < MaxDbOps
    /\ IF db # Null
       THEN /\ dbLog' = [dbLog EXCEPT !.started = @ + 1, !.used = @ \cup {db}]
            /\ UNCHANGED <<db, openReqs, dbOps>>
       ELSE LET request == "db" \o ToString(dbLog.opens + 1) IN
            /\ openReqs' = openReqs \cup {request}
            /\ dbOps' = Append(dbOps, [op |-> op, request |-> request])
            /\ dbLog' = [dbLog EXCEPT !.started = @ + 1, !.opens = @ + 1]
            /\ UNCHANGED db
    /\ UNCHANGED <<chatVars, statVars, dayVars, funVars>>

\* request.onsuccess: db = request.result, and the operation that awaited the
\* request opens its transaction on db
OpenSucceeds(request) ==
    /\ request \in openReqs
    /\ db' = request
    /\ openReqs' = openReqs \ {request}
    /\ dbOps' = SelectSeq(dbOps, LAMBDA o : o.request # request)
    /\ dbLog' = [dbLog EXCEPT !.used = @ \cup {request}]
    /\ UNCHANGED <<chatVars, statVars, dayVars, funVars>>

\* request.onerror: the operation that awaited the request rejects
OpenFails(request) ==
    /\ request \in openReqs
    /\ openReqs' = openReqs \ {request}
    /\ dbOps' = SelectSeq(dbOps, LAMBDA o : o.request # request)
    /\ dbLog' = [dbLog EXCEPT !.failed = TRUE]
    /\ UNCHANGED <<db, chatVars, statVars, dayVars, funVars>>

NextDB ==
    \/ \E op \in StorageOps : StorageCall(op)
    \/ \E n \in 1..MaxDbOps : OpenSucceeds("db" \o ToString(n))
    \/ \E n \in 1..MaxDbOps : OpenFails("db" \o ToString(n))

SpecDB == InitDB /\ [][NextDB]_vars

\* C8: as long as no open request has failed, initDB has issued at most one
\* indexedDB.open request and every operation has used the same handle.
C8_OpenedOnce ==
    ~dbLog.failed => dbLog.opens <= 1 /\ Cardinality(dbLog.used) <= 1

-----------------------------------------------------------------------------
(* Message rendering: ChatArea.renderMessageContent and the detectors it calls.
   A message text is a sequence of tokens; the detectors' regular expressions
   are evaluated on the token sequence. *)

MaxLen == 5                  \* longest message text, in tokens

Fence == "<fence>"            \* three backticks
Newline == "\n"
Pipe == "|"
DiagramKeywords == <<"mermaid", "diagram", "flowchart", "sequence">>
WordTokens == Range(DiagramKeywords) \cup {"A"}          \* match \w+
OtherTokens == {"-->"}                                   \* neither \w nor \s
Tokens == {Fence, Newline, Pipe} \cup WordTokens \cup OtherTokens
MessageTexts == UNION {[1..n -> Tokens] : n \in 0..MaxLen}

\* the other parts of the program are idle while a function is studied
InitIdle == InitBlank /\ apiKeyMissing = FALSE /\ InitDays /\ InitIdb

Count(text, token) == Cardinality({i \in DOMAIN text : text[i] = token})

\* index of the first fence at or after from, 0 if there is none
NextFence(text, from) ==
    IF \E i \in from..Len(text) : text[i] = Fence
    THEN CHOOSE i \in from..Len(text) :
             text[i] = Fence /\ \A j \in from..(i - 1) : text[j] # Fence
    ELSE 0

\* /^[\w\s,]+(?:\n[\w\s,]+)+$/m matches text[i..j]
CsvMatches(text, i, j) ==
    /\ i = 1 \/ text[i - 1] = Newline
    /\ j = Len(text) \/ text[j + 1] = Newline
    /\ \A k \in i..j : text[k] \in WordTokens \cup {Newline}
    /\ \E p \in (i + 1)..(j - 1) : text[p] = Newline

\* text.match of the CSV pattern: the leftmost match, extended greedily
CsvMatch(text) ==
    LET starts == {i \in DOMAIN text : \E j \in DOMAIN text : CsvMatches(text, i, j)} IN
    IF starts = {} THEN <<>>
    ELSE LET i == CHOOSE x \in starts : \A y \in starts : x <= y
             j == CHOOSE x \in DOMAIN text :
                      /\ CsvMatches(text, i, x)
                      /\ \A y \in DOMAIN text : CsvMatches(text, i, y) => y <= x
         IN  <<[first |-> i, last |-> j]>>

\* parseCSVToChart throws when every line of the match is blank
ParseCSVToChart(text, m) ==
    IF \E k \in m.first..m.last : text[k] # Newline THEN "line" ELSE Null

\* parseChartFromText: the type of the chart found, or Null.  No text over
\* Tokens holds a json or chart fence, so the first pattern never matches.
\* The table pattern is global: with four pipes or more match[1] is the
\* second table, JSON.parse throws on it and the loop goes on.
ParseChartFromText(text) ==
    IF Count(text, Pipe) \in {2, 3} THEN "bar"
    ELSE LET m == CsvMatch(text) IN
         IF m = <<>> THEN Null ELSE ParseCSVToChart(text, m[1])

\* the word characters that follow the opening fence at a
RECURSIVE Language(_, _)
Language(text, a) ==
    IF a + 1 <= Len(text) /\ text[a + 1] \in WordTokens
    THEN <<text[a + 1]>> \o Language(text, a + 1)
    ELSE <<>>

\* extractCodeBlocks: /```(\w+)?\n?([\s\S]*?)```/g from position from on
RECURSIVE ExtractCodeBlocks(_, _)
ExtractCodeBlocks(text, from) ==
    LET a == NextFence(text, from)
        b == IF a = 0 THEN 0 ELSE NextFence(text, a + 1) IN
    IF b = 0 THEN <<>>
    ELSE <<[language |-> IF b = a + 1 \/ Language(text, a) = <<>>
                         THEN <<"text">>
                         ELSE Language(text, a),
            first |-> a, last |-> b]>> \o ExtractCodeBlocks(text, b + 1)

\* one pattern of extractDiagrams: /```keyword\n([\s\S]*?)```/gi
RECURSIVE DiagramsOf(_, _, _)
DiagramsOf(keyword, text, from) ==
    LET a == NextFence(text, from) IN
    IF a = 0 THEN <<>>
    ELSE LET b == IF /\ a + 2 <= Len(text)
                     /\ text[a + 1] = keyword
                     /\ text[a + 2] = Newline
                  THEN NextFence(text, a + 3)
                  ELSE 0 IN
         IF b = 0 THEN DiagramsOf(keyword, text, a + 1)
         ELSE <<[type |-> "mermaid", first |-> a, last |-> b]>>
                  \o DiagramsOf(keyword, text, b + 1)

\* extractDiagrams: the four patterns in turn
ExtractDiagrams(text) ==
    DiagramsOf(DiagramKeywords[1], text, 1) \o DiagramsOf(DiagramKeywords[2], text, 1)
        \o DiagramsOf(DiagramKeywords[3], text, 1) \o DiagramsOf(DiagramKeywords[4], text, 1)

\* renderMessageContent: the component that renders the message, and how many
RenderMessageContent(text) ==
    LET chartConfig == ParseChartFromText(text)
        codeBlocks == ExtractCodeBlocks(text, 1)
        diagrams == ExtractDiagrams(text) IN
    IF chartConfig # Null THEN [renderer |-> "ChartRenderer", count |-> 1]
    ELSE IF Len(codeBlocks) > 0 THEN [renderer |-> "CodeEditor", count |-> Len(codeBlocks)]
    ELSE IF Len(diagrams) > 0 THEN [renderer |-> "DiagramRenderer", count |-> Len(diagrams)]
    ELSE [renderer |-> "text", count |-> 0]

InitRender ==
    /\ InitIdle
    /\ args \in {<<[text |-> t]>> : t \in MessageTexts}
    /\ result = <<>>

\* a message of the chat is rendered
RenderMessage ==
    /\ result = <<>>
    /\ result' = <<RenderMessageContent(args[1].text)>>
    /\ UNCHANGED <<chatVars, statVars, dayVars, idbVars, args>>

NextRender == RenderMessage

SpecRender == InitRender /\ [][NextRender]_vars

\* C11: a rendered message whose text holds a fenced diagram block (a fence,
\* one of the four diagram keywords, a newline, and later the closing fence)
\* is rendered through DiagramRenderer.
C11_DiagramBlockRendered ==
    (result # <<>> /\ Len(ExtractDiagrams(args[1].text)) > 0)
        => result[1].renderer = "DiagramRenderer"

-----------------------------------------------------------------------------
(* geminiService.sendMessage: the stream adapter.  args[1] is what the endpoint
   will deliver (the chunk texts, the chunk at which iterating the SDK stream
   or chunk.text() throws, whether result.response fulfils); result[1] is the
   state of one run of streamAndAggregate and of aggregatedResponsePromise.
   A text is a sequence of characters. *)

MaxChunks == 3               \* most chunks the endpoint streams for one reply

ChunkTexts == {<<>>, <<"a">>, <<"b">>, <<"a", "b">>}

RECURSIVE Concat(_)
Concat(texts) ==
    IF texts = <<>> THEN <<>> ELSE Concat(SubSeq(texts, 1, Len(texts) - 1)) \o texts[Len(texts)]

InitStream ==
    /\ InitIdle
    /\ \E n \in 0..MaxChunks : \E chunks \in [1..n -> ChunkTexts] :
       \E throwsAt \in 0..n : \E responseOk \in BOOLEAN :
           args = <<[chunks |-> chunks, throwsAt |-> throwsAt, responseOk |-> responseOk]>>
    /\ result = <<[received |-> 0, fullText |-> <<>>, yielded |-> <<>>,
                   response |-> "pending", done |-> FALSE, thrown |-> FALSE]>>

\* the consumer asks for the next item and the SDK stream delivers a chunk,
\* here yielding the chunk alone instead of the text aggregated so far
StreamAndAggregateYieldChunk ==
    LET a == args[1]
        r == result[1] IN
    /\ ~r.done
    /\ r.received < Len(a.chunks)
    /\ a.throwsAt # r.received + 1
    /\ LET chunkText == a.chunks[r.received + 1] IN
       result' = <<[r EXCEPT !.received = @ + 1,
                             !.fullText = @ \o chunkText,
                             !.yielded = Append(@, chunkText)]>>
    /\ UNCHANGED <<chatVars, statVars, dayVars, idbVars, args>>

\* the consumer asks for the next item and the SDK stream delivers a chunk
StreamAndAggregateYield ==
    LET a == args[1]
        r == result[1] IN
    /\ ~r.done
    /\ r.received < Len(a.chunks)
    /\ a.throwsAt # r.received + 1
    /\ LET chunkText == a.chunks[r.received + 1]
           fullText == r.fullText \o chunkText IN
       result' = <<[r EXCEPT !.received = @ + 1,
                             !.fullText = fullText,
                             !.yielded = Append(@, fullText)]>>
    /\ UNCHANGED <<chatVars, statVars, dayVars, idbVars, args>>

\* iterating the SDK stream, or chunk.text(), throws: the catch block
StreamAndAggregateCatch ==
    LET a == args[1]
        r == result[1] IN
    /\ ~r.done
    /\ r.received < Len(a.chunks)
    /\ a.throwsAt = r.received + 1
    /\ result' = <<[r EXCEPT !.response = "rejected", !.done = TRUE, !.thrown = TRUE]>>
    /\ UNCHANGED <<chatVars, statVars, dayVars, idbVars, args>>

\* the SDK stream is exhausted: await result.response, then resolve
StreamAndAggregateEnd ==
    LET a == args[1]
        r == result[1] IN
    /\ ~r.done
    /\ r.received = Len(a.chunks)
    /\ result' = <<[r EXCEPT !.response = IF a.responseOk THEN "resolved" ELSE "rejected",
                             !.done = TRUE,
                             !.thrown = ~a.responseOk]>>
    /\ UNCHANGED <<chatVars, statVars, dayVars, idbVars, args>>

\* the consumer leaves its loop early: the generator returns without settling
ConsumerBreaks ==
    LET r == result[1] IN
    /\ ~r.done
    /\ Len(r.yielded) > 0
    /\ result' = <<[r EXCEPT !.done = TRUE]>>
    /\ UNCHANGED <<chatVars, statVars, dayVars, idbVars, args>>

NextStream ==
    \/ StreamAndAggregateYield
    \/ StreamAndAggregateCatch
    \/ StreamAndAggregateEnd
    \/ ConsumerBreaks

SpecStream == InitStream /\ [][NextStream]_vars

\* C12: the k-th item yielded is the concatenation of the first k chunk texts
\* (so each is a prefix of the next, and after the last chunk it is the full
\* text); the response promise is resolved only when every chunk has been
\* iterated, and it is rejected whenever the iteration has thrown.
C12_StreamAggregates ==
    LET a == args[1]
        r == result[1] IN
    /\ Len(r.yielded) = r.received
    /\ \A k \in DOMAIN r.yielded : r.yielded[k] = Concat(SubSeq(a.chunks, 1, k))
    /\ \A k \in 1..(Len(r.yielded) - 1) : IsPrefix(r.yielded[k], r.yielded[k + 1])
    /\ r.response = "resolved" =>
           /\ r.received = Len(a.chunks)
           /\ r.yielded = <<>> \/ r.yielded[Len(r.yielded)] = Concat(a.chunks)
    /\ r.thrown => r.response = "rejected"
    /\ r.response = "rejected" => r.thrown

\* a reply of several non-empty chunks was streamed to its end
C12_Witness ==
    LET r == result[1] IN
    /\ r.response = "resolved"
    /\ Len(r.yielded) >= 2
    /\ r.yielded[1] # <<>>
    /\ r.yielded[1] # r.yielded[2]

-----------------------------------------------------------------------------
(* embeddingService: the global SimpleEmbeddingService and
   processChatEmbeddings.  result[1] holds the service (vocabulary in
   insertion order, document count per token, documentCount) and the embeddings
   store; args holds the call of processChatEmbeddings that is running and the
   index of the message its loop has reached.  A text is a sequence of words.
   A vector entry tf * idf is kept as the four numbers it is computed from,
   (count / total) * log(docs / df), and every entry equal to 0 as Zero. *)

MaxDocs == 3                 \* messages embedded over all calls
MaxMessages == 2             \* messages of a chat session
VectorSize == 100

ChatIds == {"1", "2"}
Words == {"Elephant", "elephant", "dogs", "an"}
WordLength == [w \in Words |-> IF w = "an" THEN 2 ELSE IF w = "dogs" THEN 4 ELSE 8]
ToLowerCase == [w \in Words |-> IF w = "Elephant" THEN "elephant" ELSE w]
EmbedTexts == {<<"Elephant", "an">>, <<"elephant", "dogs">>, <<"dogs", "an">>,
               <<"dogs", "dogs", "dogs">>}

\* text.length: the words and the blanks between them
RECURSIVE TextLength(_)
TextLength(text) ==
    IF text = <<>> THEN 0
    ELSE IF Len(text) = 1 THEN WordLength[text[1]]
    ELSE WordLength[text[1]] + 1 + TextLength(Tail(text))

\* tokenize
Tokenize(text) ==
    SelectSeq([i \in DOMAIN text |-> ToLowerCase[text[i]]],
              LAMBDA token : WordLength[token] > 2)

Zero == [count |-> 0, total |-> 1, docs |-> 1, df |-> 1]
Score(count, total, docs, df) ==
    IF count = 0 \/ docs = df THEN Zero
    ELSE [count |-> count, total |-> total, docs |-> docs, df |-> df]

\* new Set(tokens), in insertion order
RECURSIVE Unique(_)
Unique(tokens) ==
    IF tokens = <<>> THEN <<>>
    ELSE LET front == SubSeq(tokens, 1, Len(tokens) - 1)
             last == tokens[Len(tokens)] IN
         IF Includes(front, last) THEN Unique(front) ELSE Append(Unique(front), last)

NewService == [vocabulary |-> <<>>, docCount |-> <<>>, documentCount |-> 0]

\* updateIDF; idfScores[token] is log(documentCount / docCount[token])
UpdateIDF(service, tokens) ==
    LET uniqueTokens == Unique(tokens)
        added == SelectSeq(uniqueTokens, LAMBDA t : ~Includes(service.vocabulary, t))
        vocabulary == service.vocabulary \o added IN
    [vocabulary |-> vocabulary,
     docCount |-> [t \in Range(vocabulary) |->
                      (IF t \in DOMAIN service.docCount THEN service.docCount[t] ELSE 0)
                      + (IF Includes(uniqueTokens, t) THEN 1 ELSE 0)],
     documentCount |-> service.documentCount + 1]

\* generateEmbedding
GenerateEmbedding(service, text) ==
    LET tokens == Tokenize(text)
        topTokens == SubSeq(service.vocabulary, 1,
                            IF Len(service.vocabulary) < VectorSize
                            THEN Len(service.vocabulary) ELSE VectorSize) IN
    [i \in 1..VectorSize |->
        IF i <= Len(topTokens)
        THEN Score(Count(tokens, topTokens[i]), Len(tokens),
                   service.documentCount, service.docCount[topTokens[i]])
        ELSE Zero]

EmbeddingId(chatId, index) == chatId \o "-m" \o ToString(index)

InitEmbed ==
    /\ InitIdle
    /\ args = <<>>
    /\ result = <<[service |-> NewService, embeddings |-> <<>>]>>

\* processChatEmbeddings(chatSession) is called
ProcessChatEmbeddings(chatId) ==
    /\ args = <<>>
    /\ result[1].service.documentCount < MaxDocs
    /\ args' = <<[chatId |-> chatId, index |-> 1]>>
    /\ UNCHANGED <<chatVars, statVars, dayVars, idbVars, result>>

\* one turn of the loop, on a message whose text is text, here writing
\* afresh the vector of every stored message as well
ProcessMessageRefreshing(text) ==
    /\ args # <<>>
    /\ args[1].index <= MaxMessages
    /\ LET id == EmbeddingId(args[1].chatId, args[1].index)
           r == result[1] IN
       /\ id \in DOMAIN r.embeddings => r.embeddings[id].text = text
       /\ IF TextLength(text) > 10
          THEN /\ r.service.documentCount < MaxDocs
               /\ LET service == UpdateIDF(r.service, Tokenize(text))
                      stored == Put(r.embeddings, id, [text |-> text, embedding |-> <<>>]) IN
                  result' = <<[service |-> service,
                               embeddings |-> [k \in DOMAIN stored |->
                                   [text |-> stored[k].text,
                                    embedding |-> GenerateEmbedding(service, stored[k].text)]]]>>
          ELSE UNCHANGED result
    /\ args' = <<[args[1] EXCEPT !.index = @ + 1]>>
    /\ UNCHANGED <<chatVars, statVars, dayVars, idbVars>>

\* one turn of the loop, on a message whose text is text
ProcessMessage(text) ==
    /\ args # <<>>
    /\ args[1].index <= MaxMessages
    /\ LET id == EmbeddingId(args[1].chatId, args[1].index)
           r == result[1] IN
       \* a message keeps its text from one call to the next
       /\ id \in DOMAIN r.embeddings => r.embeddings[id].text = text
       /\ IF TextLength(text) > 10
          THEN /\ r.service.documentCount < MaxDocs
               /\ LET service == UpdateIDF(r.service, Tokenize(text)) IN
                  result' = <<[service |-> service,
                               embeddings |-> Put(r.embeddings, id,
                                   [text |-> text,
                                    embedding |-> GenerateEmbedding(service, text)])]>>
          ELSE UNCHANGED result
    /\ args' = <<[args[1] EXCEPT !.index = @ + 1]>>
    /\ UNCHANGED <<chatVars, statVars, dayVars, idbVars>>

\* the loop has gone through chatSession.messages
ProcessChatEmbeddingsDone ==
    /\ args # <<>>
    /\ args' = <<>>
    /\ UNCHANGED <<chatVars, statVars, dayVars, idbVars, result>>

NextEmbed ==
    \/ \E chatId \in ChatIds : ProcessChatEmbeddings(chatId)
    \/ \E text \in EmbedTexts : ProcessMessage(text)
    \/ ProcessChatEmbeddingsDone

SpecEmbed == InitEmbed /\ [][NextEmbed]_vars

\* the stored vector of id is not what generateEmbedding gives now for its
\* text: one has a zero entry where the other has a non-zero entry
Stale(r, id) ==
    \E i \in 1..VectorSize :
        (r.embeddings[id].embedding[i] = Zero)
            # (GenerateEmbedding(r.service, r.embeddings[id].text)[i] = Zero)

\* C13: a turn of processChatEmbeddings' loop writes the vector of the message
\* it is at, computed in the state of the service at that moment, and leaves
\* every vector stored for another message as it was, whatever the turn has
\* done to the vocabulary, the document counts and the IDF scores.
C13_EarlierVectorsKept ==
    [][(args # <<>> /\ result' # result) =>
          LET id == EmbeddingId(args[1].chatId, args[1].index)
              old == result[1].embeddings
              new == result'[1].embeddings IN
          /\ DOMAIN new = DOMAIN old \cup {id}
          /\ new[id].embedding = GenerateEmbedding(result'[1].service, new[id].text)
          /\ \A k \in DOMAIN old \ {id} : new[k] = old[k]]_vars

\* later messages have changed the counts, and a stored vector differs from
\* generateEmbedding of its text in the current state
C13_Witness ==
    /\ result[1].service.documentCount >= 2
    /\ \E id \in DOMAIN result[1].embeddings : Stale(result[1], id)

-----------------------------------------------------------------------------
(* Deleting a chat while other handlers are in flight (Spec) *)

\* C14: a session whose handleDeleteChat has completed, and which the
\* persistent chatSessions store no longer holds, is never put back into it.
C14_DeletedStaysDeleted ==
    [][\A id \in log.deleted :
          id \notin DOMAIN dbSessions => id \notin DOMAIN dbSessions']_vars

\* C15: the step that completes a handleDeleteChat takes the deleted session,
\* and nothing else, out of the in-memory list as it is at that moment.
C15_DeleteRemovesOnlyTarget ==
    [][(sessQ # <<>> /\ Head(sessQ).op = "delete" /\ sessQ' = Tail(sessQ)) =>
          chatSessions' = SelectSeq(chatSessions,
                              LAMBDA s : s.id # Head(sessQ).sessionIdToDelete)]_vars

Mounted == {i \in DOMAIN aiQ : aiQ[i].mounted}

\* C19: the mounted ChatArea has at most one AI call in flight, isLoading is
\* true exactly while it has one, and that call belongs to the active session;
\* nothing is in flight when the API key is missing; no user message is
\* blank; and a send that the guard refuses leaves the sessions, the store,
\* the calls in flight and isLoading as they were.
C19_GuardedSend ==
    /\ [](/\ Cardinality(Mounted) <= 1
          /\ isLoading <=> Mounted # {}
          /\ \A i \in Mounted : /\ aiQ[i].updatedSession.id = activeChatSessionId
                                 /\ HasActiveChat
          /\ apiKeyMissing => aiQ = <<>> /\ log.sends = 0
          /\ \A i \in DOMAIN aiQ : \A k \in DOMAIN aiQ[i].updatedSession.messages :
                 aiQ[i].updatedSession.messages[k].text # Blank)
    /\ [][log'.refused # log.refused =>
             UNCHANGED <<chatSessions, dbSessions, sessQ, aiQ, isLoading>>]_vars

\* a send was refused, another was made, and its call has settled
C19_Witness ==
    /\ log.refused > 0
    /\ log.sends > 0
    /\ aiQ = <<>>
    /\ ~isLoading
    /\ lastSettled # <<>>

-----------------------------------------------------------------------------
(* chatLogicService.calculateNextStateAfterDeletion on any arguments: args[1]
   holds the three arguments, result the value returned. *)

MaxSessions == 3             \* longest session list passed

SessionIds == {"1", "2", "3", "4"}
WithId(id) == [id |-> id, messages |-> <<WelcomeMessage>>]

InitCalc ==
    /\ InitIdle
    /\ \E n \in 0..MaxSessions : \E ids \in [1..n -> SessionIds \ {"4"}] :
       \E sessionIdToDelete \in SessionIds \cup {Null} :
       \E currentActiveSessionId \in SessionIds \cup {Null} :
           args = <<[currentSessions |-> [i \in 1..n |-> WithId(ids[i])],
                     sessionIdToDelete |-> sessionIdToDelete,
                     currentActiveSessionId |-> currentActiveSessionId]>>
    /\ result = <<>>

CalculateNextState ==
    /\ result = <<>>
    /\ result' = <<CalculateNextStateAfterDeletion(args[1].currentSessions,
                                                   args[1].sessionIdToDelete,
                                                   args[1].currentActiveSessionId)>>
    /\ UNCHANGED <<chatVars, statVars, dayVars, idbVars, args>>

NextCalc == CalculateNextState

SpecCalc == InitCalc /\ [][NextCalc]_vars

\* C16: the new active id is null exactly when no session is left, and
\* otherwise it is the id of one of the sessions left.
C16_NewActiveIsListed ==
    result # <<>> =>
        LET r == result[1] IN
        /\ r.newActiveSessionId = Null <=> r.updatedSessions = <<>>
        /\ r.newActiveSessionId # Null =>
               \E i \in DOMAIN r.updatedSessions :
                   r.updatedSessions[i].id = r.newActiveSessionId

\* the active id passed is not in the list, another session is deleted
C16_Witness ==
    /\ result # <<>>
    /\ result[1].updatedSessions # <<>>
    /\ args[1].currentActiveSessionId # Null
    /\ args[1].currentActiveSessionId # args[1].sessionIdToDelete
    /\ \A i \in DOMAIN args[1].currentSessions :
           args[1].currentSessions[i].id # args[1].currentActiveSessionId

\* C17: the sessions returned are those passed without the deleted id, in the
\* same order; when the deleted session was the active one and some session
\* is left, the new active session is the one now at the deleted session's
\* position, or the last one if that position no longer exists.
C17_SameIndexOrLast ==
    result # <<>> =>
        LET a == args[1]
            r == result[1]
            positions == {i \in DOMAIN a.currentSessions :
                              a.currentSessions[i].id = a.sessionIdToDelete} IN
        /\ r.updatedSessions = SelectSeq(a.currentSessions,
                                         LAMBDA s : s.id # a.sessionIdToDelete)
        /\ (/\ a.currentActiveSessionId = a.sessionIdToDelete
            /\ positions # {}
            /\ r.updatedSessions # <<>>) =>
               LET index == CHOOSE i \in positions : \A j \in positions : i <= j IN
               r.newActiveSessionId =
                   IF index <= Len(r.updatedSessions)
                   THEN r.updatedSessions[index].id
                   ELSE r.updatedSessions[Len(r.updatedSessions)].id

\* the active session, in the middle of three, is deleted
C17_Witness ==
    /\ result # <<>>
    /\ Len(args[1].currentSessions) = 3
    /\ args[1].currentSessions[2].id = args[1].sessionIdToDelete
    /\ args[1].currentSessions[1].id # args[1].sessionIdToDelete
    /\ args[1].currentSessions[3].id # args[1].sessionIdToDelete
    /\ args[1].currentActiveSessionId = args[1].sessionIdToDelete
    /\ result[1].newActiveSessionId = args[1].currentSessions[3].id

-----------------------------------------------------------------------------
(* Storage calls that reject.  A request that will fail changes nothing in
   its store; the handler that awaits it is queued as a task whose op is
   "rejected" and resumes in its catch block. *)

MaxFailOps == 1              \* user events when storage calls may reject

\* a session and a quick prompt stored by an earlier run
OldPrompt == [id |-> "prompt-" \o ToString(1), text |-> "a"]

\* the state after initializeApp has loaded what an earlier run stored: one
\* session, one quick prompt and the counters that go with them
InitFail ==
    /\ now = 2
    /\ apiKeyMissing \in BOOLEAN
    /\ chatSessions = <<CreateNewChatSession(1)>>
    /\ activeChatSessionId = ToString(1)
    /\ quickPrompts = <<OldPrompt>>
    /\ isLoading = FALSE
    /\ dbSessions = Put(<<>>, ToString(1), CreateNewChatSession(1))
    /\ dbPrompts = Put(<<>>, OldPrompt.id, OldPrompt)
    /\ sessQ = <<>> /\ promptQ = <<>> /\ aiQ = <<>> /\ statsQ = <<>>
    /\ lastSettled = <<>>
    /\ opsLeft = MaxFailOps
    /\ dbStats = Put(<<>>, "main", StoredStats(0, 1, 1, 0, 0))
    /\ lastCheck = [given |-> UsageInsights(StoredStats(0, 1, 1, 0, 0)),
                    stored |-> StoredStats(0, 1, 1, 0, 0).achievements,
                    new |-> <<>>]
    /\ log = [sends |-> 0, totalMessages |-> 0, totalChats |-> 0, totalQuickPrompts |-> 0,
              refused |-> 0, deleted |-> {}, caught |-> 0]
    /\ InitDays /\ InitIdb /\ InitFun

Rejected(handler) == [op |-> "rejected", handler |-> handler]

\* handleCreateNewChat, up to an `await saveChatSession(newSession)` that will reject
HandleCreateNewChatRejected(timestamp) ==
    /\ Spend
    /\ ~apiKeyMissing
    /\ DateNow(timestamp)
    /\ sessQ' = Append(sessQ, Rejected("handleCreateNewChat"))
    /\ UNCHANGED <<apiKeyMissing, chatSessions, activeChatSessionId, quickPrompts,
                   isLoading, dbSessions, dbPrompts, promptQ, aiQ, lastSettled,
                   statVars, dayVars, idbVars, funVars>>

\* handleDeleteChat that sets the new list before awaiting the delete
HandleDeleteChatOptimistic(sessionIdToDelete) ==
    /\ Spend
    /\ \E i \in DOMAIN chatSessions : chatSessions[i].id = sessionIdToDelete
    /\ chatSessions' = CalculateNextStateAfterDeletion(chatSessions, sessionIdToDelete,
                           activeChatSessionId).updatedSessions
    /\ sessQ' = Append(sessQ, Rejected("handleDeleteChat"))
    /\ UNCHANGED <<now, apiKeyMissing, activeChatSessionId, quickPrompts,
                   isLoading, dbSessions, dbPrompts, promptQ, aiQ, lastSettled,
                   statVars, dayVars, idbVars, funVars>>

\* handleDeleteChat, up to an `await deleteChatSession(sessionIdToDelete)` that will reject
HandleDeleteChatRejected(sessionIdToDelete) ==
    /\ Spend
    /\ \E i \in DOMAIN chatSessions : chatSessions[i].id = sessionIdToDelete
    /\ sessQ' = Append(sessQ, Rejected("handleDeleteChat"))
    /\ UNCHANGED <<now, apiKeyMissing, chatSessions, activeChatSessionId, quickPrompts,
                   isLoading, dbSessions, dbPrompts, promptQ, aiQ, lastSettled,
                   statVars, dayVars, idbVars, funVars>>

\* handleUpdateChatSession, up to an `await saveChatSession(updatedSession)` that will reject
UpdateChatSessionCallRejected ==
    /\ sessQ' = Append(sessQ, Rejected("handleUpdateChatSession"))
    /\ UNCHANGED dbSessions

\* handleSendMessage, up to `await sendMessage(...)`, the save of the user
\* message being one that will reject
HandleSendMessageSaveRejected(messageText) ==
    /\ Spend
    /\ ~(messageText = Blank \/ isLoading \/ apiKeyMissing \/ ~HasActiveChat)
    /\ LET activeChatSession == ActiveChat
           updatedSession == UpdatedSession(activeChatSession, messageText) IN
       /\ UpdateChatSessionCallRejected
       /\ isLoading' = TRUE
       /\ aiQ' = Append(aiQ, [updatedSession |-> updatedSession,
                              history |-> activeChatSession.messages,
                              mounted |-> TRUE])
       /\ log' = [log EXCEPT !.sends = @ + 1]
    /\ UNCHANGED <<now, apiKeyMissing, chatSessions, activeChatSessionId, quickPrompts,
                   dbPrompts, promptQ, lastSettled, dbStats, statsQ, lastCheck,
                   dayVars, idbVars, funVars>>

\* handleSendMessage, from the settling of sendMessage to its end, the save
\* of the reply being one that will reject
AiSettlesSaveRejected(i, endpointOk) ==
    /\ i \in DOMAIN aiQ
    /\ LET t == aiQ[i]
           rejected == SendMessageRejects(t.history, endpointOk)
           session == IF rejected THEN ErrorSession(t.updatedSession)
                      ELSE FinalSession(t.updatedSession) IN
       /\ UpdateChatSessionCallRejected
       /\ isLoading' = IF t.mounted THEN FALSE ELSE isLoading
       /\ aiQ' = SubSeq(aiQ, 1, i - 1) \o SubSeq(aiQ, i + 1, Len(aiQ))
       /\ lastSettled' = << [endpointOk |-> endpointOk, rejected |-> rejected,
                             history |-> t.history, passed |-> session,
                             propagated |-> FALSE] >>
    /\ UNCHANGED <<now, apiKeyMissing, chatSessions, activeChatSessionId, quickPrompts,
                   dbPrompts, promptQ, opsLeft, statVars, dayVars, idbVars, funVars>>

\* handleSaveQuickPrompt, up to an `await saveQuickPrompt(prompt)` that will reject
HandleSaveQuickPromptRejected(editing, timestamp) ==
    /\ Spend
    /\ editing = 0 \/ editing \in DOMAIN quickPrompts
    /\ DateNow(timestamp)
    /\ promptQ' = Append(promptQ, Rejected("handleSaveQuickPrompt"))
    /\ UNCHANGED <<apiKeyMissing, chatSessions, activeChatSessionId, quickPrompts,
                   isLoading, dbSessions, dbPrompts, sessQ, aiQ, lastSettled,
                   statVars, dayVars, idbVars, funVars>>

\* handleDeleteQuickPrompt, up to an `await deleteQuickPrompt(promptId)` that will reject
HandleDeleteQuickPromptRejected(i) ==
    /\ Spend
    /\ i \in DOMAIN quickPrompts
    /\ promptQ' = Append(promptQ, Rejected("handleDeleteQuickPrompt"))
    /\ UNCHANGED <<now, apiKeyMissing, chatSessions, activeChatSessionId, quickPrompts,
                   isLoading, dbSessions, dbPrompts, sessQ, aiQ, lastSettled,
                   statVars, dayVars, idbVars, funVars>>

\* the catch block of handleCreateNewChat, handleDeleteChat or handleUpdateChatSession
SessionCallRejected ==
    /\ sessQ # <<>> /\ Head(sessQ).op = "rejected"
    /\ sessQ' = Tail(sessQ)
    /\ log' = [log EXCEPT !.caught = @ + 1]
    /\ UNCHANGED <<now, apiKeyMissing, chatSessions, activeChatSessionId, quickPrompts,
                   isLoading, dbSessions, dbPrompts, promptQ, aiQ, lastSettled, opsLeft,
                   dbStats, statsQ, lastCheck, dayVars, idbVars, funVars>>

\* the catch block of handleSaveQuickPrompt or handleDeleteQuickPrompt
PromptCallRejected ==
    /\ promptQ # <<>> /\ Head(promptQ).op = "rejected"
    /\ promptQ' = Tail(promptQ)
    /\ log' = [log EXCEPT !.caught = @ + 1]
    /\ UNCHANGED <<now, apiKeyMissing, chatSessions, activeChatSessionId, quickPrompts,
                   isLoading, dbSessions, dbPrompts, sessQ, aiQ, lastSettled, opsLeft,
                   dbStats, statsQ, lastCheck, dayVars, idbVars, funVars>>

NextFail ==
    \/ Next
    \/ \E t \in 1..MaxClock : HandleCreateNewChatRejected(t)
    \/ \E id \in {ToString(t) : t \in 1..MaxClock} : HandleDeleteChatRejected(id)
    \/ \E text \in Texts : HandleSendMessageSaveRejected(text)
    \/ \E i \in 1..MaxFailOps : \E ok \in BOOLEAN : AiSettlesSaveRejected(i, ok)
    \/ \E e \in 0..MaxFailOps : \E t \in 1..MaxClock : HandleSaveQuickPromptRejected(e, t)
    \/ \E i \in 1..MaxFailOps : HandleDeleteQuickPromptRejected(i)
    \/ SessionCallRejected
    \/ PromptCallRejected

SpecFail == InitFail /\ [][NextFail]_vars

\* the step awaits, or resumes from, a storage call that rejects
RejectedCallStep(queue, queueAfter) ==
    \/ /\ Len(queueAfter) = Len(queue) + 1
       /\ queueAfter[Len(queueAfter)].op = "rejected"
    \/ /\ queue # <<>>
       /\ Head(queue).op = "rejected"
       /\ queueAfter = Tail(queue)

\* C20: a handler whose storage call rejects changes neither chatSessions,
\* activeChatSessionId, quickPrompts nor the stores, starts no stats update,
\* and ends in its catch block.
C20_RejectedCallChangesNothing ==
    [][(RejectedCallStep(sessQ, sessQ') \/ RejectedCallStep(promptQ, promptQ')) =>
          /\ UNCHANGED <<chatSessions, activeChatSessionId, quickPrompts,
                         dbSessions, dbPrompts, dbStats, statsQ>>
          /\ \A stat \in {"totalMessages", "totalChats", "totalQuickPrompts"} :
                 log'[stat] = log[stat]
          /\ log'.caught >= log.caught]_vars

\* handlers have ended in their catch blocks, and sessions exist
C20_Witness ==
    /\ log.caught > 0
    /\ sessQ = <<>> /\ promptQ = <<>> /\ statsQ = <<>>
    /\ chatSessions # <<>>

-----------------------------------------------------------------------------
(* The stored achievements over several days of use: page loads that update
   the streak, and on each day the handlers that call checkAchievements. *)

MaxGrowOps == 2              \* chats created over the days

\* a run of an earlier day has stored a streak of six days
InitGrow ==
    /\ InitChatWith(MaxGrowOps) /\ InitDays /\ InitIdb /\ InitFun
    /\ \E tm \in {0, 49}, ts \in {0, 60} :
          /\ dbStats = Put(<<>>, "main", StoredStats(tm, 1, 0, 6, ts))
          /\ lastCheck = [given |-> UsageInsights(StoredStats(tm, 1, 0, 0, 0)),
                          stored |-> StoredStats(tm, 1, 0, 6, ts).achievements,
                          new |-> <<>>]
    /\ statsQ = <<>>
    /\ log = [sends |-> 0, totalMessages |-> 0, totalChats |-> 0, totalQuickPrompts |-> 0,
             refused |-> 0, deleted |-> {}, caught |-> 0]

\* the page is loaded on a later day than the last one, with no handler in flight
LoadPage ==
    /\ Quiescent
    /\ GetUserStats.lastActiveDate # today
    /\ InitializeApp

\* the days go by; on each the page may be loaded and chats created
NextGrow ==
    \/ \E t \in 1..MaxClock : HandleCreateNewChat(t)
    \/ CreateSaved
    \/ IncrementStatRead
    \/ IncrementStatSaved
    \/ CheckAchievementsCall
    \/ UpdateUserStatsRead
    \/ NextDay
    \/ LoadPage

SpecGrow == InitGrow /\ [][NextGrow]_vars

\* C21: the updateUserStats call of a checkAchievements that runs while no
\* other stats call is in flight takes no achievement id out of the stored
\* user stats.
C21_AchievementsOnlyGrow ==
    [][(/\ Len(statsQ) = 1
        /\ Head(statsQ).pc = "upd_get"
        /\ statsQ' = <<>>)
       => Range(dbStats["main"].achievements)
              \subseteq Range(dbStats'["main"].achievements)]_vars

-----------------------------------------------------------------------------
(* Quick prompts and their counter (Spec) *)

\* C22: when handleSaveQuickPrompt resumes after saving an edit of an existing
\* prompt, it starts no increment of totalQuickPrompts.
C22_EditNotCounted ==
    [][(/\ promptQ # <<>>
        /\ Head(promptQ).op = "save"
        /\ Head(promptQ).editing
        /\ promptQ' = Tail(promptQ))
       => statsQ' = statsQ]_vars

-----------------------------------------------------------------------------
(* The service worker: install and the fetch listener (SpecSW) *)

MaxRequests == 2             \* fetch events the worker receives

\* a URL is its scheme, its host ("self" is self.location.origin) and its path
Url(scheme, host, path) == [scheme |-> scheme, host |-> host, path |-> path]

IndexHtml == Url("https", "self", "/index.html")

\* the entries of STATIC_CACHE_URLS among the URLs requested here
STATIC_CACHE_URLS == {Url("https", "self", "/"), IndexHtml}

Urls ==
    STATIC_CACHE_URLS \cup
        {Url("https", "self", "/chat"),
         Url("https", "cdn.jsdelivr.net", "/npm/mermaid"),
         Url("https", "api.example", "/v1"),
         Url("chrome-extension", "ext", "/inject.js")}

Requests == [method : {"GET", "POST"}, url : Urls, mode : {"navigate", "no-cors"}]

\* url.startsWith('http')
StartsWithHttp(url) == url.scheme \in {"http", "https"}

ShouldCache(url) ==
    \/ url.host \in {"fonts.googleapis.com", "fonts.gstatic.com"}
    \/ url.host = "cdn.jsdelivr.net" /\ url.path \in {"/npm/monaco-editor", "/npm/mermaid"}
    \/ url.host = "self"

\* the responses the network can give to a request: a same-origin response
\* has type basic, a cross-origin one cors or opaque
NetworkResponses(url) ==
    [from : {"network"}, url : {url}, status : {200, 404},
     type : IF url.host = "self" THEN {"basic"} ELSE {"cors", "opaque"}]

CachedResponse(url) == [from |-> "cache", url |-> url, status |-> 200, type |-> "basic"]

NetworkError == [from |-> "error", url |-> IndexHtml, status |-> 0, type |-> "error"]

\* caches.match(request): the stored response, or undefined
CachesMatch(caches, url) ==
    IF url \in caches THEN CachedResponse(url)
    ELSE [from |-> "undefined", url |-> url, status |-> 0, type |-> "error"]

NoRequest == [method |-> "GET", url |-> IndexHtml, mode |-> "no-cors"]

InitSW ==
    /\ InitIdle
    /\ args = <<[caches |-> {}, request |-> NoRequest, left |-> MaxRequests]>>
    /\ result = <<[pc |-> "installing", respondWith |-> FALSE, cachedResponse |-> FALSE,
                   fetches |-> 0, fetchFailed |-> FALSE, settled |-> FALSE,
                   response |-> NetworkError]>>

\* the install listener: cache.addAll(STATIC_CACHE_URLS) stores every URL or,
\* when one of them cannot be fetched, none; the catch logs the failure, so
\* the promise given to waitUntil is fulfilled either way and the worker is
\* activated (activate deletes the caches of other names only)
Install ==
    LET a == args[1]
        r == result[1] IN
    /\ r.pc = "installing"
    /\ \E addAllOk \in BOOLEAN :
           args' = <<[a EXCEPT !.caches = IF addAllOk THEN STATIC_CACHE_URLS ELSE {}]>>
    /\ result' = <<[r EXCEPT !.pc = "idle"]>>
    /\ UNCHANGED <<chatVars, statVars, dayVars, idbVars>>

\* the fetch listener up to respondWith: it returns without answering a
\* request that is not GET or whose URL does not start with http
FetchListener(request) ==
    LET a == args[1]
        r == result[1]
        skipped == request.method # "GET" \/ ~StartsWithHttp(request.url) IN
    /\ r.pc = "idle"
    /\ a.left > 0
    /\ args' = <<[a EXCEPT !.request = request, !.left = @ - 1]>>
    /\ result' = <<[pc |-> IF skipped THEN "idle" ELSE "match",
                    respondWith |-> ~skipped, cachedResponse |-> FALSE,
                    fetches |-> 0, fetchFailed |-> FALSE, settled |-> skipped,
                    response |-> NetworkError]>>
    /\ UNCHANGED <<chatVars, statVars, dayVars, idbVars>>

\* caches.match(event.request) resolves: a cached response is returned,
\* otherwise fetch(event.request) is called
CachesMatchThen ==
    LET a == args[1]
        r == result[1]
        cachedResponse == CachesMatch(a.caches, a.request.url) IN
    /\ r.pc = "match"
    /\ IF cachedResponse.from = "cache"
       THEN result' = <<[r EXCEPT !.pc = "idle", !.cachedResponse = TRUE,
                                  !.settled = TRUE, !.response = cachedResponse]>>
       ELSE result' = <<[r EXCEPT !.pc = "fetch", !.fetches = @ + 1]>>
    /\ UNCHANGED <<chatVars, statVars, dayVars, idbVars, args>>

\* fetch resolves: a 200 basic response of a URL that shouldCache accepts is
\* put into the cache, and the response is returned
FetchThen ==
    LET a == args[1]
        r == result[1] IN
    /\ r.pc = "fetch"
    /\ \E response \in NetworkResponses(a.request.url) :
           /\ result' = <<[r EXCEPT !.pc = "idle", !.settled = TRUE, !.response = response]>>
           /\ IF response.status = 200 /\ response.type = "basic" /\ ShouldCache(a.request.url)
              THEN args' = <<[a EXCEPT !.caches = @ \cup {a.request.url}]>>
              ELSE args' = args
    /\ UNCHANGED <<chatVars, statVars, dayVars, idbVars>>

\* fetch rejects: a navigation request is answered with what
\* caches.match('/index.html') resolves to, and undefined given to respondWith
\* is a network error; for any other request the error is thrown again
FetchCatch ==
    LET a == args[1]
        r == result[1]
        fallback == CachesMatch(a.caches, IndexHtml) IN
    /\ r.pc = "fetch"
    /\ result' = <<[r EXCEPT !.pc = "idle", !.settled = TRUE, !.fetchFailed = TRUE,
                             !.response = IF a.request.mode = "navigate" /\ fallback.from = "cache"
                                          THEN fallback ELSE NetworkError]>>
    /\ UNCHANGED <<chatVars, statVars, dayVars, idbVars, args>>

NextSW ==
    \/ Install
    \/ \E request \in Requests : FetchListener(request)
    \/ CachesMatchThen
    \/ FetchThen
    \/ FetchCatch

SpecSW == InitSW /\ [][NextSW]_vars

\* C23: once the worker is done with a fetch event: a request that is not GET
\* or not http(s) was not answered by the worker and caused no fetch; a request
\* found in the cache was answered with the cached response and caused no
\* fetch; a fetch was made only after a cache miss; after a failed fetch a
\* navigation request was answered with the cached /index.html and any other
\* request failed.
C23_CacheFirst ==
    LET a == args[1]
        r == result[1]
        e == a.request IN
    (r.pc = "idle" /\ r.settled) =>
        /\ (e.method # "GET" \/ ~StartsWithHttp(e.url)) => ~r.respondWith /\ r.fetches = 0
        /\ r.cachedResponse => r.response = CachedResponse(e.url) /\ r.fetches = 0
        /\ r.fetches > 0 => r.respondWith /\ ~r.cachedResponse
        /\ (r.fetchFailed /\ e.mode = "navigate") => r.response = CachedResponse(IndexHtml)
        /\ (r.fetchFailed /\ e.mode # "navigate") => r.response = NetworkError

====
